---- MODULE Spec2Model ----
(***************************************************************************)
(* A model of src/main.py: the two-pass car pipeline.  Pass one pulls      *)
(* records out of the csv, json and xml readers (DataLoader), counting     *)
(* each record's car_model and appending the record, json-encoded, to a    *)
(* temporary file.  Pass two rewinds the temporary file, keeps the records *)
(* whose model was counted at least 3 times, formats them and writes them  *)
(* after one header line.                                                  *)
(*                                                                         *)
(* A python str is a sequence of symbols.  A symbol is one character       *)
(* ("c", ",", "\n") or, for the field and tag names that the program       *)
(* only ever compares as a whole, one name ("car_model").  A python dict   *)
(* is a sequence of <<key, value>> pairs in insertion order with unique    *)
(* keys.                                                                   *)
(***************************************************************************)
EXTENDS Integers, Sequences, FiniteSets, TLC

----------------------------------------------------------------------------
(* Bounds of the model.                                                    *)

\* the most source units (csv lines, json lines, xml blocks) of one corpus
MaxUnits == 4

\* the same, for the runs followed to their end under fairness
MaxFairUnits == 3

\* the same, for the corpora that are run twice
MaxRunUnits == 3

\* the longest car_model of the corpora that vary the model's spelling
MaxModelLen == 3

\* the most data lines of the csv file whose header order and row lengths vary
MaxCsvLines == 3

\* the most source units of the corpora of xml files only
MaxXmlUnits == 4

----------------------------------------------------------------------------
(* python str                                                              *)

NL == "\n"
Q == "\""
EmptyStr == <<>>
Whitespace == {" ", NL}

\* str.strip(): leading and trailing whitespace removed
RECURSIVE LStrip(_)
LStrip(s) ==
    IF s # <<>> /\ Head(s) \in Whitespace THEN LStrip(Tail(s)) ELSE s

RECURSIVE RStrip(_)
RStrip(s) ==
    IF s # <<>> /\ s[Len(s)] \in Whitespace
    THEN RStrip(SubSeq(s, 1, Len(s) - 1))
    ELSE s

Strip(s) == RStrip(LStrip(s))

\* str.split(sep): always at least one piece; ''.split(',') is ['']
RECURSIVE SplitFrom(_, _, _)
SplitFrom(s, sep, piece) ==
    IF s = <<>> THEN <<piece>>
    ELSE IF Head(s) = sep THEN <<piece>> \o SplitFrom(Tail(s), sep, EmptyStr)
    ELSE SplitFrom(Tail(s), sep, Append(piece, Head(s)))

Split(s, sep) == SplitFrom(s, sep, EmptyStr)

\* sep.join(parts)
RECURSIVE Join(_, _)
Join(sep, parts) ==
    IF parts = <<>> THEN EmptyStr
    ELSE IF Len(parts) = 1 THEN parts[1]
    ELSE parts[1] \o sep \o Join(sep, Tail(parts))

\* str.startswith(prefix)
StartsWith(s, prefix) ==
    /\ Len(s) >= Len(prefix)
    /\ SubSeq(s, 1, Len(prefix)) = prefix

----------------------------------------------------------------------------
(* python dict                                                             *)

EmptyDict == <<>>

DictKeys(d) == {d[i][1] : i \in 1..Len(d)}

DictHas(d, k) == k \in DictKeys(d)

\* d[k], for a key that is present
DictAt(d, k) == d[CHOOSE i \in 1..Len(d) : d[i][1] = k][2]

\* d.get(k, default)
DictGet(d, k, default) == IF DictHas(d, k) THEN DictAt(d, k) ELSE default

\* d[k] = v: a present key keeps its place, a new key goes last
DictSet(d, k, v) ==
    IF DictHas(d, k)
    THEN [i \in 1..Len(d) |-> IF d[i][1] = k THEN <<k, v>> ELSE d[i]]
    ELSE Append(d, <<k, v>>)

\* dict(zip(keys, values)): pairs up to the shorter of the two
RECURSIVE DictZipFrom(_, _, _)
DictZipFrom(keys, values, d) ==
    IF keys = <<>> \/ values = <<>> THEN d
    ELSE DictZipFrom(Tail(keys), Tail(values), DictSet(d, Head(keys), Head(values)))

DictZip(keys, values) == DictZipFrom(keys, values, EmptyDict)

----------------------------------------------------------------------------
(* json: a record is written as {"k": "v", "k": "v"} and parsed back.      *)
(* Every value the readers of this model produce is a str whose symbols    *)
(* need no escaping, so the encoder quotes keys and values as they are.    *)

JsonStr(s) == <<Q>> \o s \o <<Q>>

JsonMember(kv) == JsonStr(kv[1]) \o <<":", " ">> \o JsonStr(kv[2])

\* json.dumps(car)
JsonDumps(d) ==
    <<"{">> \o Join(<<",", " ">>, [i \in 1..Len(d) |-> JsonMember(d[i])]) \o <<"}">>

JsonFail == [ok |-> FALSE, val |-> EmptyDict]

\* the first position at or after i that holds no whitespace
RECURSIVE SkipWs(_, _)
SkipWs(s, i) ==
    IF i <= Len(s) /\ s[i] \in Whitespace THEN SkipWs(s, i + 1) ELSE i

SymAt(s, i) == IF i <= Len(s) THEN s[i] ELSE "<eof>"

\* a quoted string starting at i
ParseStr(s, i) ==
    IF SymAt(s, i) # Q \/ ~(\E j \in (i + 1)..Len(s) : s[j] = Q)
    THEN [ok |-> FALSE, val |-> EmptyStr, next |-> i]
    ELSE LET j == CHOOSE j \in (i + 1)..Len(s) :
                      /\ s[j] = Q
                      /\ \A m \in (i + 1)..(j - 1) : s[m] # Q
         IN  [ok |-> TRUE, val |-> SubSeq(s, i + 1, j - 1), next |-> j + 1]

\* the members of an object from position i on, up to the closing brace
RECURSIVE ParseMembers(_, _, _)
ParseMembers(s, i, d) ==
    LET k == ParseStr(s, i)
        colon == SkipWs(s, k.next)
        v == ParseStr(s, SkipWs(s, colon + 1))
        after == SkipWs(s, v.next)
        d2 == DictSet(d, k.val, v.val)
    IN  IF ~k.ok \/ SymAt(s, colon) # ":" THEN JsonFail
        ELSE IF ~v.ok THEN JsonFail
        ELSE IF SymAt(s, after) = ","
             THEN ParseMembers(s, SkipWs(s, after + 1), d2)
        ELSE IF SymAt(s, after) = "}" /\ SkipWs(s, after + 1) > Len(s)
             THEN [ok |-> TRUE, val |-> d2]
        ELSE JsonFail

\* json.loads(line): ok is FALSE where the decoder raises
JsonLoads(s) ==
    LET open == SkipWs(s, 1)
        first == SkipWs(s, open + 1)
    IN  IF SymAt(s, open) # "{" THEN JsonFail
        ELSE IF SymAt(s, first) = "}"
             THEN IF SkipWs(s, first + 1) > Len(s)
                  THEN [ok |-> TRUE, val |-> EmptyDict]
                  ELSE JsonFail
        ELSE ParseMembers(s, first, EmptyDict)

----------------------------------------------------------------------------
(* float(str) and the .2f format                                           *)

Digits == <<"0", "1", "2", "3", "4", "5", "6", "7", "8", "9">>

IsDigit(c) == \E i \in 1..Len(Digits) : Digits[i] = c

DigitVal(c) == (CHOOSE i \in 1..Len(Digits) : Digits[i] = c) - 1

RECURSIVE ToNat(_)
ToNat(ds) ==
    IF ds = <<>> THEN 0 ELSE 10 * ToNat(SubSeq(ds, 1, Len(ds) - 1)) + DigitVal(ds[Len(ds)])

RECURSIVE NatStr(_)
NatStr(n) ==
    IF n < 10 THEN <<Digits[n + 1]>> ELSE Append(NatStr(n \div 10), Digits[(n % 10) + 1])

RECURSIVE Pow10(_)
Pow10(k) == IF k = 0 THEN 1 ELSE 10 * Pow10(k - 1)

\* float(s) for the decimal literals digits[.digits] and .digits, whitespace
\* around them allowed; ok is FALSE where float raises ValueError.  The
\* value is num / 10^scale.  Signs, exponents, underscores, inf and nan are
\* not written in any price of this model.
ParseFloat(s) ==
    LET t == Strip(s)
        parts == Split(t, ".")
        int == parts[1]
        frac == IF Len(parts) = 2 THEN parts[2] ELSE EmptyStr
    IN  IF \/ Len(parts) > 2
           \/ Len(int) + Len(frac) = 0
           \/ \E i \in 1..Len(int) : ~IsDigit(int[i])
           \/ \E i \in 1..Len(frac) : ~IsDigit(frac[i])
        THEN [ok |-> FALSE, num |-> 0, scale |-> 0]
        ELSE [ok |-> TRUE, num |-> ToNat(int \o frac), scale |-> Len(frac)]

\* f'{price:.2f}': the value rounded to hundredths, ties to even
FormatFixed2(num, scale) ==
    LET unit == Pow10(scale)
        q == (num * 100) \div unit
        r == (num * 100) % unit
        cents == IF 2 * r > unit \/ (2 * r = unit /\ q % 2 = 1) THEN q + 1 ELSE q
        c == cents % 100
    IN  NatStr(cents \div 100) \o <<".">> \o <<Digits[(c \div 10) + 1], Digits[(c % 10) + 1]>>

----------------------------------------------------------------------------
(* str.title()                                                             *)

Lowers == <<"c", "i", "f", "o", "g", "d", "x">>
Uppers == <<"C", "I", "F", "O", "G", "D", "X">>

IsLower(c) == \E i \in 1..Len(Lowers) : Lowers[i] = c
IsUpper(c) == \E i \in 1..Len(Uppers) : Uppers[i] = c
ToUpper(c) == IF IsLower(c) THEN Uppers[CHOOSE i \in 1..Len(Lowers) : Lowers[i] = c] ELSE c
ToLower(c) == IF IsUpper(c) THEN Lowers[CHOOSE i \in 1..Len(Uppers) : Uppers[i] = c] ELSE c

\* a title case that starts a word after whitespace only
RECURSIVE TitleWordsFrom(_, _)
TitleWordsFrom(s, inWord) ==
    IF s = <<>> THEN EmptyStr
    ELSE <<IF inWord THEN ToLower(Head(s)) ELSE ToUpper(Head(s))>>
             \o TitleWordsFrom(Tail(s), Head(s) \notin Whitespace)

TitleWords(s) == TitleWordsFrom(s, FALSE)

\* a cased letter is uppercased after an uncased symbol (or at the start)
\* and lowercased after a cased one
RECURSIVE TitleFrom(_, _)
TitleFrom(s, prevCased) ==
    IF s = <<>> THEN EmptyStr
    ELSE LET c == Head(s)
             cased == IsLower(c) \/ IsUpper(c)
         IN  <<IF prevCased THEN ToLower(c) ELSE ToUpper(c)>>
                 \o TitleFrom(Tail(s), cased)

Title(s) == TitleFrom(s, FALSE)

----------------------------------------------------------------------------
(* The field names and the program's constants.                            *)

CAR_MODEL == <<"car_model">>
YEAR == <<"year_of_manufacture">>
PRICE == <<"price">>
FUEL == <<"fuel">>

\* header = ['car_model', 'year_of_manufacture', 'price', 'fuel']
OutHeader == <<CAR_MODEL, YEAR, PRICE, FUEL>>

\* the literal the filter compares a model's count with
Threshold == 3

\* DELAY = 0.05, in hundredths of a second
DELAY == 5

----------------------------------------------------------------------------
(* DataLoader                                                              *)

\* _count_car: car_model_counts[m] = car_model_counts.get(m, 0) + 1;
\* car['car_model'] raises KeyError when the key is absent
CountCarOk(car) == DictHas(car, CAR_MODEL)

\* a count step that counts a model under its title-cased spelling
CountCarNormalised(counts, car) ==
    LET m == Title(DictAt(car, CAR_MODEL))
    IN  DictSet(counts, m, DictGet(counts, m, 0) + 1)

\* a count step that notes a model as seen without adding up
CountCarSeen(counts, car) == DictSet(counts, DictAt(car, CAR_MODEL), 1)

\* self.car_model_counts[m] = self.car_model_counts.get(m, 0) + 1
CountCar(counts, car) ==
    LET m == DictAt(car, CAR_MODEL)
    IN  DictSet(counts, m, DictGet(counts, m, 0) + 1)

\* read_csv, the header: next(f), stripped and split
CsvHeader(line) == Split(Strip(line), ",")

\* read_csv, one line: stripped and split; an empty list is skipped
CsvCells(line) == Split(Strip(line), ",")

CsvSkips(line) == CsvCells(line) = <<>>

CsvCar(header, line) == DictZip(header, CsvCells(line))

\* read_json, one line: stripped; an empty str is skipped
JsonSkips(line) == Strip(line) = EmptyStr

JsonCar(line) == JsonLoads(Strip(line))

\* _extract_xml_value: line.split('>')[1].split('<')[0]; IndexError when
\* the line holds no '>'
XmlValueOk(line) == Len(Split(line, ">")) >= 2

ExtractXmlValue(line) == Split(Split(line, ">")[2], "<")[1]

\* read_xml, one line: the tag the stripped line starts with decides
XmlField(line) ==
    IF StartsWith(line, <<"<", "car_model">>) THEN CAR_MODEL
    ELSE IF StartsWith(line, <<"<", "year">>) THEN YEAR
    ELSE IF StartsWith(line, <<"<", "price">>) THEN PRICE
    ELSE IF StartsWith(line, <<"<", "fuel">>) THEN FUEL
    ELSE EmptyStr

XmlCloses(line) ==
    /\ XmlField(line) = EmptyStr
    /\ StartsWith(line, <<"<", "/", "row">>)

----------------------------------------------------------------------------
(* format_car                                                              *)

\* a format_car that lets a price it cannot parse through
FormatCarErrorLenient(car) ==
    IF ~DictHas(car, PRICE) \/ ~DictHas(car, CAR_MODEL) THEN "KeyError" ELSE ""

\* the exception format_car raises for this car, "" when it raises none
FormatCarError(car) ==
    IF ~DictHas(car, PRICE) THEN "KeyError"
    ELSE IF ~ParseFloat(DictAt(car, PRICE)).ok THEN "ValueError"
    ELSE IF ~DictHas(car, CAR_MODEL) THEN "KeyError"
    ELSE ""

\* car.get(h, ''): a field the car lacks is rendered empty
FieldOrEmpty(car, h) == DictGet(car, h, EmptyStr)

\* the csv line of a car that format_car accepts
FormatCar(car, header) ==
    LET price == ParseFloat(DictAt(car, PRICE))
        car1 == DictSet(car, PRICE, FormatFixed2(price.num, price.scale))
        car2 == DictSet(car1, CAR_MODEL, Title(DictAt(car1, CAR_MODEL)))
    IN  Join(<<",">>, [i \in 1..Len(header) |-> FieldOrEmpty(car2, header[i])])

----------------------------------------------------------------------------
(* Files: a file is a sequence of lines, each ending in a newline; the     *)
(* temporary file and the output file are the symbols written so far.     *)

\* the line that starts at offset pos (the symbols up to and including
\* the next newline, or up to the end of the file)
RECURSIVE LineEnd(_, _)
LineEnd(content, i) ==
    IF i >= Len(content) THEN Len(content)
    ELSE IF content[i + 1] = NL THEN i + 1
    ELSE LineEnd(content, i + 1)

ReadLine(content, pos) ==
    [line |-> SubSeq(content, pos + 1, LineEnd(content, pos)),
     next |-> LineEnd(content, pos)]

\* every line of a file, in order
RECURSIVE LinesFrom(_, _)
LinesFrom(content, pos) ==
    IF pos >= Len(content) THEN <<>>
    ELSE <<ReadLine(content, pos).line>> \o LinesFrom(content, ReadLine(content, pos).next)

Lines(content) == LinesFrom(content, 0)

----------------------------------------------------------------------------
(* The input corpora.  A corpus is up to MaxUnits source units: lines of   *)
(* a csv file, lines of a json file and blocks of xml files.  Among the    *)
(* xml units, Break ends a file and starts the next xml file; glob         *)
(* returns the files of a format in that order.                            *)

Break == <<"<break>">>

CsvHeaderLine ==
    <<"car_model", ",", "year_of_manufacture", ",", "price", ",", "fuel", NL>>

CsvUnits ==
    { <<"c", "i", ",", "0", "1", ",", "9", ",", "g", NL>>,    \* ci,01,9,g
      <<"C", "I", ",", "0", "2", ",", "x", ",", "d", NL>>,    \* CI,02,x,d
      <<"c", "i", ",", "0", "1", NL>>,                        \* ci,01
      <<NL>> }                                                \* a blank line

JsonUnits ==
    { <<"{", Q, "car_model", Q, ":", " ", Q, "c", "i", Q, ",", " ",
        Q, "price", Q, ":", " ", Q, "1", "2", ".", "5", Q, "}", NL>>,
      <<"{", Q, "price", Q, ":", " ", Q, "9", Q, "}", NL>>,
      <<NL>> }

XmlTagLine(tag, value) ==
    <<"<", tag, ">">> \o value \o <<"<", "/", tag, ">", NL>>

XmlRowClose == <<"<", "/", "row", ">", NL>>

XmlUnits ==
    { << <<"<", "row", ">", NL>>,
         XmlTagLine("car_model", <<"c", "i">>),
         XmlTagLine("price", <<"9">>),
         XmlRowClose >>,
      << XmlTagLine("car_model", <<"f", "o">>) >>,      \* a block left open
      << <<" ", " ">> \o XmlTagLine("year", <<"0", "1">>),
         XmlTagLine("price", <<"9", ".", "5">>),
         XmlRowClose >>,
      << Break >> }

\* the units cut into files at each Break
RECURSIVE CutFiles(_, _, _)
CutFiles(units, first, file) ==
    IF units = <<>> THEN <<file>>
    ELSE IF Head(units) = Break
         THEN <<file>> \o CutFiles(Tail(units), first, first)
    ELSE CutFiles(Tail(units), first, Append(file, Head(units)))

CsvFiles(units) ==
    IF units = <<>> THEN <<>> ELSE CutFiles(units, <<CsvHeaderLine>>, <<CsvHeaderLine>>)

JsonFiles(units) ==
    IF units = <<>> THEN <<>> ELSE CutFiles(units, <<>>, <<>>)

RECURSIVE Flatten(_)
Flatten(blocks) ==
    IF blocks = <<>> THEN <<>> ELSE Head(blocks) \o Flatten(Tail(blocks))

XmlFiles(units) ==
    IF units = <<>> THEN <<>> ELSE CutFiles(Flatten(units), <<>>, <<>>)

----------------------------------------------------------------------------
(* State                                                                   *)

VARIABLES
    csv_files,           \* DATA_DIR.glob('*.csv'): the files, each its lines
    json_files,          \* DATA_DIR.glob('*.json')
    xml_files,           \* DATA_DIR.glob('*.xml')
    supplied_threshold,  \* the threshold the operator asks for
    read_delay,          \* the delay per car, in hundredths of a second
    slept,               \* the time spent in sleep so far, in the same unit
    run_no,              \* 1 in a run, 2 in a run repeated on the same files
    first_run,           \* what the run before the repeated run ended with
    pc,                  \* where the main block is
    gen,                 \* the generator of the chain being iterated
    lineno,              \* lines that generator has read from its file
    header,              \* read_csv's header
    xml_car,             \* read_xml's car
    car,                 \* the car the chain has yielded to the first loop
    car_model_counts,    \* loader.car_model_counts
    car_buffer,          \* the content of the temporary file
    buffer_pos,          \* the read position in the temporary file
    buffer_state,        \* "none", "open" or "released"
    output_file,         \* the content of OUTPUT_FILE
    error,               \* the exception that ended the run, "" for none
    appended,            \* history: the cars dumped to the buffer, in order,
                         \* each with the file and line that completed it
    readback,            \* history: the cars loaded from the buffer, in order
    decisions            \* history: per car read back, what the filter saw

inputs == <<csv_files, json_files, xml_files, supplied_threshold, read_delay>>
earlier == <<run_no, first_run>>
reader == <<gen, lineno, header, xml_car>>
files == <<car_buffer, buffer_pos, buffer_state, output_file>>
history == <<appended, readback, decisions>>
vars == <<inputs, earlier, pc, reader, car, car_model_counts, files, error, slept, history>>

\* itertools.chain(csv generators + json generators + xml generators)
CsvGens == [i \in 1..Len(csv_files) |-> [fmt |-> "csv", idx |-> i, file |-> csv_files[i]]]
JsonGens == [i \in 1..Len(json_files) |-> [fmt |-> "json", idx |-> i, file |-> json_files[i]]]
XmlGens == [i \in 1..Len(xml_files) |-> [fmt |-> "xml", idx |-> i, file |-> xml_files[i]]]

\* a chain that takes the json generators first
ChainJsonFirst == JsonGens \o CsvGens \o XmlGens

Chain == CsvGens \o JsonGens \o XmlGens

Exhausted == gen > Len(Chain)

Reading(fmt) ==
    /\ pc = "ingest"
    /\ ~Exhausted
    /\ Chain[gen].fmt = fmt

CurFile == Chain[gen].file

NextLine == CurFile[lineno + 1]

SuppliedThresholds == {2, 3}

\* the data directory holds files of the three formats, of at most n units
Discovered(n) ==
    \E k1 \in 0..n :
      \E k2 \in 0..(n - k1) :
        \E k3 \in 0..(n - k1 - k2) :
          /\ csv_files \in {CsvFiles(u) : u \in [1..k1 -> CsvUnits]}
          /\ json_files \in {JsonFiles(u) : u \in [1..k2 -> JsonUnits]}
          /\ xml_files \in {XmlFiles(u) : u \in [1..k3 -> XmlUnits]}

\* no run before this one
NoRun == [counts |-> EmptyDict, buffer |-> <<>>, output |-> <<>>, error |-> "", slept |-> 0]

\* main() is entered: nothing is open, read, counted or written
Entered ==
    /\ pc = "start"
    /\ slept = 0
    /\ gen = 1
    /\ lineno = 0
    /\ header = <<>>
    /\ xml_car = EmptyDict
    /\ car = EmptyDict
    /\ car_model_counts = EmptyDict
    /\ car_buffer = <<>>
    /\ buffer_pos = 0
    /\ buffer_state = "none"
    /\ output_file = <<>>
    /\ error = ""
    /\ appended = <<>>
    /\ readback = <<>>
    /\ decisions = <<>>

Init ==
    /\ Discovered(MaxUnits)
    /\ supplied_threshold \in SuppliedThresholds
    /\ read_delay = DELAY
    /\ run_no = 1
    /\ first_run = NoRun
    /\ Entered

----------------------------------------------------------------------------
(* Actions                                                                 *)

\* an exception leaves the current statement and unwinds to the with block
Raise(name) ==
    /\ pc' = "raised"
    /\ error' = name
    /\ slept' = slept

\* sleep(self._read_delay) in a reader, sleep(DELAY) in the second loop
Sleep == slept' = slept + read_delay

\* a reader yields a car it has just counted and slept for: the first
\* loop's body is next
Yield(c) ==
    /\ car_model_counts' = CountCar(car_model_counts, c)
    /\ Sleep
    /\ car' = c
    /\ pc' = "buffer"
    /\ error' = error

\* a reader goes on to its next line without yielding
Continue == UNCHANGED <<pc, car, car_model_counts, error, slept>>

\* with tempfile.NamedTemporaryFile(mode='w+') as car_buffer,
\*      open(OUTPUT_FILE, 'w') as output_file
Acquire ==
    /\ pc = "start"
    /\ pc' = "ingest"
    /\ buffer_state' = "open"
    /\ car_buffer' = <<>>
    /\ output_file' = <<>>
    /\ UNCHANGED <<inputs, earlier, reader, car, car_model_counts, buffer_pos, error,
                   slept, history>>

\* read_csv up to its loop: header = next(f), stripped and split.  next(f)
\* on a file with no line ends the generator with a RuntimeError.
ReadCsvHeader ==
    /\ Reading("csv")
    /\ lineno = 0
    /\ IF CurFile = <<>>
       THEN Raise("RuntimeError") /\ UNCHANGED <<lineno, header>>
       ELSE /\ header' = CsvHeader(NextLine)
            /\ lineno' = 1
            /\ UNCHANGED <<pc, error, slept>>
    /\ UNCHANGED <<inputs, earlier, gen, xml_car, car, car_model_counts, files, history>>

\* read_csv, one turn of its loop
ReadCsvLine ==
    /\ Reading("csv")
    /\ lineno >= 1
    /\ lineno < Len(CurFile)
    /\ lineno' = lineno + 1
    /\ IF CsvSkips(NextLine) THEN Continue
       ELSE IF ~CountCarOk(CsvCar(header, NextLine)) THEN
            Raise("KeyError") /\ UNCHANGED <<car, car_model_counts>>
       ELSE Yield(CsvCar(header, NextLine))
    /\ UNCHANGED <<inputs, earlier, gen, header, xml_car, files, history>>

\* read_json, one turn of its loop
ReadJsonLine ==
    /\ Reading("json")
    /\ lineno < Len(CurFile)
    /\ lineno' = lineno + 1
    /\ IF JsonSkips(NextLine) THEN Continue
       ELSE IF ~JsonCar(NextLine).ok THEN
            Raise("JSONDecodeError") /\ UNCHANGED <<car, car_model_counts>>
       ELSE IF ~CountCarOk(JsonCar(NextLine).val) THEN
            Raise("KeyError") /\ UNCHANGED <<car, car_model_counts>>
       ELSE Yield(JsonCar(NextLine).val)
    /\ UNCHANGED <<inputs, earlier, gen, header, xml_car, files, history>>

\* an accumulator that is not emptied after a record is yielded
XmlResetKept == xml_car

\* car = {} after a record has been yielded
XmlReset == EmptyDict

\* an accumulator that outlives its reader: the next reader starts from
\* what the one before it left
XmlStartCarried == xml_car

\* car = {} when a read_xml generator starts
XmlStart == EmptyDict

\* read_xml, one turn of its loop
ReadXmlLine ==
    /\ Reading("xml")
    /\ lineno < Len(CurFile)
    /\ lineno' = lineno + 1
    /\ LET line == Strip(NextLine)
           acc == IF lineno = 0 THEN XmlStart ELSE xml_car
       IN  IF XmlField(line) # EmptyStr THEN
                IF ~XmlValueOk(line)
                THEN Raise("IndexError") /\ UNCHANGED <<xml_car, car, car_model_counts>>
                ELSE /\ xml_car' = DictSet(acc, XmlField(line), ExtractXmlValue(line))
                     /\ Continue
           ELSE IF XmlCloses(line) THEN
                IF ~CountCarOk(acc)
                THEN Raise("KeyError") /\ UNCHANGED <<xml_car, car, car_model_counts>>
                ELSE Yield(acc) /\ xml_car' = XmlReset
           ELSE xml_car' = acc /\ Continue
    /\ UNCHANGED <<inputs, earlier, gen, header, files, history>>

\* the generator being iterated has read its file to the end: it returns,
\* its locals are gone, and the chain goes on with the next generator,
\* which has locals of its own
EndOfFile ==
    /\ pc = "ingest"
    /\ ~Exhausted
    /\ lineno = Len(CurFile)
    /\ Chain[gen].fmt = "csv" => lineno >= 1
    /\ gen' = gen + 1
    /\ lineno' = 0
    /\ header' = <<>>
    /\ xml_car' = XmlStart
    /\ UNCHANGED <<inputs, earlier, pc, car, car_model_counts, files, error, slept, history>>

\* a buffer line that also records the time slept so far
BufferLineStamped(c) == JsonDumps(DictSet(c, <<"slept">>, NatStr(slept))) \o <<NL>>

\* the first loop's body: json.dump(car, car_buffer); car_buffer.write('\n')
BufferLine(c) == JsonDumps(c) \o <<NL>>

BufferCar ==
    /\ pc = "buffer"
    /\ car_buffer' = car_buffer \o BufferLine(car)
    /\ appended' = Append(appended, [car |-> car, fmt |-> Chain[gen].fmt,
                                       idx |-> Chain[gen].idx, line |-> lineno])
    /\ pc' = "ingest"
    /\ UNCHANGED <<inputs, earlier, reader, car, car_model_counts, buffer_pos, buffer_state,
                   output_file, error, slept, readback, decisions>>

\* a first loop that stops once the csv generators are done
LoopDoneAfterCsv == gen > Len(csv_files)

\* the first loop ends when the chain has no generator left
LoopDone == Exhausted

\* no seek: the position stays where the writes left it, at the end
RewindPosUnmoved == Len(car_buffer)

\* car_buffer.seek(0)
RewindPos == 0

\* no header written
HeaderLineMissing == <<>>

\* output_file.write(",".join(header)); output_file.write('\n')
HeaderLine == Join(<<",">>, OutHeader) \o <<NL>>

Rewind ==
    /\ pc = "ingest"
    /\ LoopDone
    /\ buffer_pos' = RewindPos
    /\ output_file' = output_file \o HeaderLine
    /\ pc' = "filter"
    /\ UNCHANGED <<inputs, earlier, reader, car, car_model_counts, car_buffer, buffer_state,
                   error, slept, history>>

\* a comparison that drops a model counted exactly 3 times
RetainsAbove(n) == n > Threshold

\* loader.car_model_counts[c['car_model']] >= 3
Retains(n) == n >= Threshold

\* a second pass that reads the buffer through the loader counts again
CountsAfterLoadRecounted(counts, c) ==
    IF CountCarOk(c) THEN CountCar(counts, c) ELSE counts

\* the buffer is read back with json.loads, not through the loader: loading
\* a buffered car leaves the counts as they are
CountsAfterLoad(counts, c) == counts

\* one car of the second pass: the next line of the buffer is loaded, its
\* model's count is looked up and compared, and a car that passes is
\* formatted and written
FilterCar ==
    /\ pc = "filter"
    /\ buffer_pos < Len(car_buffer)
    /\ LET rl == ReadLine(car_buffer, buffer_pos)
           loaded == JsonLoads(rl.line)
           c == loaded.val
           m == DictAt(c, CAR_MODEL)
           n == DictAt(car_model_counts, m)
           seen == [pos |-> Len(readback) + 1, model |-> m, count |-> n]
       IN  /\ buffer_pos' = rl.next
           /\ IF ~loaded.ok THEN
                  /\ Raise("JSONDecodeError")
                  /\ UNCHANGED <<car, car_model_counts, output_file, history>>
              ELSE
                  /\ readback' = Append(readback, c)
                  /\ car_model_counts' = CountsAfterLoad(car_model_counts, c)
                  /\ appended' = appended
                  /\ IF ~DictHas(c, CAR_MODEL) \/ ~DictHas(car_model_counts, m) THEN
                         /\ Raise("KeyError")
                         /\ UNCHANGED <<car, output_file, decisions>>
                     ELSE IF ~Retains(n) THEN
                         /\ decisions' = Append(decisions, seen @@ [written |-> FALSE])
                         /\ UNCHANGED <<pc, car, output_file, error, slept>>
                     ELSE IF FormatCarError(c) # "" THEN
                         /\ Raise(FormatCarError(c))
                         /\ decisions' = Append(decisions, seen @@ [written |-> FALSE])
                         /\ UNCHANGED <<car, output_file>>
                     ELSE
                         /\ output_file' = output_file \o FormatCar(c, OutHeader) \o <<NL>>
                         /\ decisions' = Append(decisions, seen @@ [written |-> TRUE])
                         /\ car' = c
                         /\ Sleep
                         /\ UNCHANGED <<pc, error>>
    /\ UNCHANGED <<inputs, earlier, reader, car_buffer, buffer_state>>

\* a buffer that is closed by hand after the second loop, so that an
\* exception leaves it as it is
BufferAfterExitOnError == IF pc = "raised" THEN buffer_state ELSE "released"

\* the with statement closes the temporary file, which deletes it, however
\* the block is left
BufferAfterExit == "released"

\* the with block is left, by the end of the second loop or by an
\* exception: both files are closed and the temporary file is deleted
ExitWith ==
    /\ \/ pc = "filter" /\ buffer_pos >= Len(car_buffer)
       \/ pc = "raised"
    /\ pc' = IF pc = "raised" THEN "failed" ELSE "done"
    /\ buffer_state' = BufferAfterExit
    /\ UNCHANGED <<inputs, earlier, reader, car, car_model_counts, car_buffer, buffer_pos,
                   output_file, error, slept, history>>

Next ==
    \/ Acquire
    \/ ReadCsvHeader
    \/ ReadCsvLine
    \/ ReadJsonLine
    \/ ReadXmlLine
    \/ EndOfFile
    \/ BufferCar
    \/ Rewind
    \/ FilterCar
    \/ ExitWith

Spec == Init /\ [][Next]_vars

----------------------------------------------------------------------------
(* Specifications over other initial states.                               *)

\* main() has returned or was left by an exception
Terminal == pc \in {"done", "failed"}

\* Leaving a with block runs the exit of its context managers, whether the
\* block ends or an exception unwinds through it: the exit is not put off
\* for ever.  Nothing is assumed of the steps inside the block.
InitFair ==
    /\ Discovered(MaxFairUnits)
    /\ supplied_threshold = Threshold
    /\ read_delay = DELAY
    /\ run_no = 1
    /\ first_run = NoRun
    /\ Entered

FairSpec == InitFair /\ [][Next]_vars /\ WF_vars(ExitWith)

\* The program run twice on the same files, found in the same order, with
\* two different delays: DataLoader's default read_delay of 0, and DELAY.
Delays == {0, DELAY}

InitTwoRuns ==
    /\ Discovered(MaxRunUnits)
    /\ supplied_threshold = Threshold
    /\ read_delay \in Delays
    /\ run_no = 1
    /\ first_run = NoRun
    /\ Entered

\* what a run leaves behind
Outcome ==
    [counts |-> car_model_counts, buffer |-> car_buffer, output |-> output_file,
     error |-> error, slept |-> slept]

\* the first run is over: the program is started again with another delay
RunAgain ==
    /\ run_no = 1
    /\ Terminal
    /\ run_no' = 2
    /\ first_run' = Outcome
    /\ read_delay' \in Delays \ {read_delay}
    /\ pc' = "start"
    /\ slept' = 0
    /\ gen' = 1
    /\ lineno' = 0
    /\ header' = <<>>
    /\ xml_car' = EmptyDict
    /\ car' = EmptyDict
    /\ car_model_counts' = EmptyDict
    /\ car_buffer' = <<>>
    /\ buffer_pos' = 0
    /\ buffer_state' = "none"
    /\ output_file' = <<>>
    /\ error' = ""
    /\ appended' = <<>>
    /\ readback' = <<>>
    /\ decisions' = <<>>
    /\ UNCHANGED <<csv_files, json_files, xml_files, supplied_threshold>>

NextTwoRuns == Next \/ RunAgain

TwoRunSpec == InitTwoRuns /\ [][NextTwoRuns]_vars

\* The program run on one json file of three cars of one model, the model
\* being any string over a lowercase letter, an uppercase letter, a
\* hyphen, a space, a digit and an apostrophe: the cars pass the filter
\* and are formatted.
ModelSymbols == {"c", "I", "-", " ", "9", "'"}

ModelStrings == UNION {[1..n -> ModelSymbols] : n \in 0..MaxModelLen}

ModelLine(m) == JsonDumps(<< <<CAR_MODEL, m>>, <<PRICE, <<"9">> >> >>)

InitTitle ==
    /\ csv_files = <<>>
    /\ xml_files = <<>>
    /\ \E m \in ModelStrings : json_files = << <<ModelLine(m), ModelLine(m), ModelLine(m)>> >>
    /\ supplied_threshold = Threshold
    /\ read_delay = DELAY
    /\ run_no = 1
    /\ first_run = NoRun
    /\ Entered

NextJson ==
    \/ Acquire
    \/ ReadJsonLine
    \/ EndOfFile
    \/ BufferCar
    \/ Rewind
    \/ FilterCar
    \/ ExitWith

TitleSpec == InitTitle /\ [][NextJson]_vars

\* The program run on one csv file whose header names the four fields in
\* any order and whose rows hold the values of the first 1 to 4 header
\* fields: rows cut short at any column, under any column order.
HeaderOrders ==
    {[i \in 1..Len(OutHeader) |-> OutHeader[p[i]]] :
        p \in {q \in [1..Len(OutHeader) -> 1..Len(OutHeader)] :
                  \A i, j \in 1..Len(OutHeader) : q[i] = q[j] => i = j}}

FieldValue(h) ==
    IF h = CAR_MODEL THEN <<"c", "i">>
    ELSE IF h = YEAR THEN <<"0", "1">>
    ELSE IF h = PRICE THEN <<"9">>
    ELSE <<"g">>

CsvRow(order, k) == Join(<<",">>, [i \in 1..k |-> FieldValue(order[i])]) \o <<NL>>

CsvFileOf(order, lengths) ==
    <<Join(<<",">>, order) \o <<NL>>>>
        \o [i \in 1..Len(lengths) |-> CsvRow(order, lengths[i])]

InitCsv ==
    /\ \E order \in HeaderOrders :
         \E n \in 0..MaxCsvLines :
           \E lengths \in [1..n -> 1..Len(OutHeader)] :
             csv_files = <<CsvFileOf(order, lengths)>>
    /\ json_files = <<>>
    /\ xml_files = <<>>
    /\ supplied_threshold = Threshold
    /\ read_delay = DELAY
    /\ run_no = 1
    /\ first_run = NoRun
    /\ Entered

NextCsv ==
    \/ Acquire
    \/ ReadCsvHeader
    \/ ReadCsvLine
    \/ EndOfFile
    \/ BufferCar
    \/ Rewind
    \/ FilterCar
    \/ ExitWith

CsvSpec == InitCsv /\ [][NextCsv]_vars

\* The program run on xml files only, with one more kind of block: a
\* closed block of another model that sets fuel and no price.
XmlUnitsWide ==
    XmlUnits \cup { << XmlTagLine("car_model", <<"f", "o">>),
                       XmlTagLine("fuel", <<"d">>),
                       XmlRowClose >> }

InitXml ==
    /\ csv_files = <<>>
    /\ json_files = <<>>
    /\ \E k \in 0..MaxXmlUnits : xml_files \in {XmlFiles(u) : u \in [1..k -> XmlUnitsWide]}
    /\ supplied_threshold = Threshold
    /\ read_delay = DELAY
    /\ run_no = 1
    /\ first_run = NoRun
    /\ Entered

NextXml ==
    \/ Acquire
    \/ ReadXmlLine
    \/ EndOfFile
    \/ BufferCar
    \/ Rewind
    \/ FilterCar
    \/ ExitWith

XmlSpec == InitXml /\ [][NextXml]_vars

----------------------------------------------------------------------------
(* What the claims speak of.                                               *)

ModelOf(c) == DictAt(c, CAR_MODEL)

AppendedCars == [i \in 1..Len(appended) |-> appended[i].car]

IsPrefix(a, b) == Len(a) <= Len(b) /\ a = SubSeq(b, 1, Len(a))

\* the count the table holds for a model, 0 for a model it does not hold
CountOf(m) == DictGet(car_model_counts, m, 0)

\* how many of the appended cars have model m
NumAppended(m) == Cardinality({i \in 1..Len(appended) : ModelOf(appended[i].car) = m})

\* the positions in the buffer of the cars that were written out, in the
\* order they were written
WrittenPos ==
    LET w == SelectSeq(decisions, LAMBDA d : d.written)
    IN  [k \in 1..Len(w) |-> w[k].pos]

WrittenAt(i) == \E k \in 1..Len(decisions) : decisions[k].pos = i /\ decisions[k].written

OutputLines == Lines(output_file)

DataLines == IF OutputLines = <<>> THEN <<>> ELSE Tail(OutputLines)

FilterPassStarted == pc \in {"filter", "done"} \/ readback # <<>>

\* The source records as the specification counts them: one per non-empty
\* line after the header of a delimited file, one per non-empty line of a
\* structured-record file, one per closed block of a markup file.
NonEmptyLine(line) == Strip(line) # EmptyStr

ModelsOf(cars) ==
    LET with == SelectSeq(cars, LAMBDA c : DictHas(c, CAR_MODEL))
    IN  [i \in 1..Len(with) |-> ModelOf(with[i])]

CsvSourceModels(file) ==
    IF file = <<>> THEN <<>>
    ELSE LET data == SelectSeq(Tail(file), NonEmptyLine)
         IN  ModelsOf([i \in 1..Len(data) |-> CsvCar(CsvHeader(file[1]), data[i])])

JsonSourceModels(file) ==
    LET data == SelectSeq(file, NonEmptyLine)
    IN  ModelsOf([i \in 1..Len(data) |-> JsonCar(data[i]).val])

RECURSIVE XmlBlocks(_, _)
XmlBlocks(lines, acc) ==
    IF lines = <<>> THEN <<>>
    ELSE LET line == Strip(Head(lines))
         IN  IF XmlField(line) # EmptyStr
             THEN XmlBlocks(Tail(lines), DictSet(acc, XmlField(line), ExtractXmlValue(line)))
             ELSE IF XmlCloses(line)
             THEN <<acc>> \o XmlBlocks(Tail(lines), EmptyDict)
             ELSE XmlBlocks(Tail(lines), acc)

XmlSourceModels(file) == ModelsOf(XmlBlocks(file, EmptyDict))

SourceModels ==
    Flatten([i \in 1..Len(csv_files) |-> CsvSourceModels(csv_files[i])])
        \o Flatten([i \in 1..Len(json_files) |-> JsonSourceModels(json_files[i])])
        \o Flatten([i \in 1..Len(xml_files) |-> XmlSourceModels(xml_files[i])])

SourceCount(m) == Cardinality({i \in 1..Len(SourceModels) : SourceModels[i] = m})

IngestionCompleted == pc \in {"filter", "done"} \/ (pc = "ingest" /\ Exhausted)

----------------------------------------------------------------------------
(* C1: the cars read back from the buffer after the rewind are the cars   *)
(* appended to it during ingestion: at every moment the cars read back so *)
(* far are the first cars appended, in order, and a run that completes    *)
(* has read back every appended car exactly once.                         *)
BufferReadBackExact ==
    /\ IsPrefix(readback, AppendedCars)
    /\ pc = "done" => readback = AppendedCars

\* a completed run that read back three cars, not all alike
BufferReadBackWitness ==
    /\ pc = "done"
    /\ Len(readback) >= 3
    /\ readback = AppendedCars
    /\ readback[1] # readback[3]

(* C2: when ingestion has completed, the count of every model is the      *)
(* number of source records with that model over all files of all three   *)
(* formats.                                                                *)
CountsMatchSourceRecords ==
    IngestionCompleted =>
        \A m \in DictKeys(car_model_counts) \cup {SourceModels[i] : i \in 1..Len(SourceModels)} :
            CountOf(m) = SourceCount(m)

(* C3: in a run that completes, a buffered car has a line in the output   *)
(* exactly when the final count of its model is at least the threshold.   *)
RetainedIffCounted ==
    pc = "done" =>
        /\ Len(DataLines) = Len(WrittenPos)
        /\ \A i \in 1..Len(appended) :
               /\ WrittenAt(i) <=> CountOf(ModelOf(appended[i].car)) >= Threshold
               /\ WrittenAt(i) =>
                      \E k \in 1..Len(DataLines) :
                          DataLines[k] = FormatCar(appended[i].car, OutHeader) \o <<NL>>

\* a completed run with a car whose model was counted exactly 3 times,
\* written, and a car of a model counted less, dropped
RetainedIffCountedWitness ==
    /\ pc = "done"
    /\ \E i, j \in 1..Len(appended) :
           /\ CountOf(ModelOf(appended[i].car)) = Threshold
           /\ WrittenAt(i)
           /\ CountOf(ModelOf(appended[j].car)) < Threshold
           /\ ~WrittenAt(j)

(* C4: the filter uses the threshold that is supplied: in a run that      *)
(* completes, a buffered car is written exactly when its model's count is *)
(* at least the supplied threshold (with threshold 2 and the rows Civic,  *)
(* Civic, Focus the two Civic rows are written).                          *)
SuppliedThresholdUsed ==
    pc = "done" =>
        \A i \in 1..Len(appended) :
            WrittenAt(i) <=> CountOf(ModelOf(appended[i].car)) >= supplied_threshold

(* C5: the data lines of the output are the retained cars in ingestion    *)
(* order: cars are ingested csv files first, then json files, then xml    *)
(* files, each file in line order, and the k-th data line is the k-th     *)
(* retained car of that order.                                            *)
FmtRank(fmt) == IF fmt = "csv" THEN 1 ELSE IF fmt = "json" THEN 2 ELSE 3

IngestedBefore(a, b) ==
    \/ FmtRank(a.fmt) < FmtRank(b.fmt)
    \/ a.fmt = b.fmt /\ a.idx < b.idx
    \/ a.fmt = b.fmt /\ a.idx = b.idx /\ a.line < b.line

OutputInIngestionOrder ==
    /\ \A i, j \in 1..Len(appended) : i < j => IngestedBefore(appended[i], appended[j])
    /\ \A k \in 1..(Len(WrittenPos) - 1) : WrittenPos[k] < WrittenPos[k + 1]
    /\ pc \in {"filter", "done"} =>
           DataLines = [k \in 1..Len(WrittenPos) |->
                           FormatCar(appended[WrittenPos[k]].car, OutHeader) \o <<NL>>]

\* a completed run that wrote cars of two formats, the lines not alike,
\* after dropping a car ingested between them
OutputInIngestionOrderWitness ==
    /\ pc = "done"
    /\ Len(DataLines) >= 3
    /\ DataLines[1] # DataLines[Len(DataLines)]
    /\ appended[WrittenPos[1]].fmt # appended[WrittenPos[Len(WrittenPos)]].fmt
    /\ \E i \in 1..Len(appended) :
           ~WrittenAt(i) /\ WrittenPos[1] < i /\ i < WrittenPos[Len(WrittenPos)]

(* C6: the frequency table is frozen from the start of the filter pass:   *)
(* no step taken once the filter pass has started changes any count.      *)
CountsFrozen == [][FilterPassStarted => car_model_counts' = car_model_counts]_vars

\* a completed filter pass over several cars, with counts in the table
CountsFrozenWitness ==
    /\ pc = "done"
    /\ Len(readback) >= 2
    /\ Len(car_model_counts) >= 2

(* C7: no filtering decision is taken and no car is written before every  *)
(* source file is exhausted, and every comparison of the filter pass      *)
(* reads the final count of the car's model: the number of cars of that   *)
(* model among all the cars ingested.                                     *)
FilterReadsFinalCounts ==
    /\ (FilterPassStarted \/ decisions # <<>> \/ output_file # <<>>) => Exhausted
    /\ \A k \in 1..Len(decisions) :
           decisions[k].count = NumAppended(decisions[k].model)

\* the first car ingested was compared with a count that cars ingested
\* after it, from another file, had raised
FilterReadsFinalCountsWitness ==
    /\ decisions # <<>>
    /\ decisions[1].pos = 1
    /\ decisions[1].count >= 2
    /\ \E i \in 2..Len(appended) :
           /\ ModelOf(appended[i].car) = decisions[1].model
           /\ appended[i].fmt # appended[1].fmt

(* C8: a run that completes has written the header line exactly once, as  *)
(* the first line, before any data line; a run that retains no car has    *)
(* written the header line and nothing else, and ends without an error.   *)
HeaderOnceFirst ==
    /\ pc \in {"start", "ingest", "buffer"} => output_file = <<>>
    /\ pc \in {"filter", "done"} =>
           /\ OutputLines # <<>>
           /\ OutputLines[1] = HeaderLine
           /\ \A k \in 2..Len(OutputLines) : OutputLines[k] # HeaderLine
           /\ Len(OutputLines) = 1 + Len(WrittenPos)
    /\ pc = "done" => error = ""
    /\ (pc = "done" /\ WrittenPos = <<>>) =>
           output_file = Join(<<",">>, OutHeader) \o <<NL>>

\* a completed run that ingested cars and retained none
HeaderOnceFirstWitness ==
    /\ pc = "done"
    /\ Len(appended) >= 2
    /\ WrittenPos = <<>>
    /\ error = ""
    /\ OutputLines = <<Join(<<",">>, OutHeader) \o <<NL>>>>

(* C9: a record with a canonical key missing is tolerated: neither the    *)
(* counting of a car nor its formatting fails because a key is absent.    *)
MissingKeysTolerated == error # "KeyError"

(* C11: a price that is not a number is fatal only for a car that passes  *)
(* the filter.  A car whose model was counted at least 3 times and whose  *)
(* price does not parse ends the run with a ValueError at that car: no    *)
(* line is written for it and no later car is read or written.  A car     *)
(* whose model was counted fewer times is dropped with no line and no     *)
(* error, whatever its price.  A ValueError has no other origin.          *)
NonNumericPrice(c) == DictHas(c, PRICE) /\ ~ParseFloat(DictAt(c, PRICE)).ok

AbortedAt(k) ==
    /\ k = Len(decisions)
    /\ decisions[k].pos = Len(readback)
    /\ ~decisions[k].written
    /\ error = "ValueError"
    /\ pc \in {"raised", "failed"}

NonNumericPriceFatalIfRetained ==
    /\ \A k \in 1..Len(decisions) :
         LET d == decisions[k]
             c == readback[d.pos]
         IN  /\ (d.count >= Threshold /\ NonNumericPrice(c)) => AbortedAt(k)
             /\ d.count < Threshold =>
                  /\ ~d.written
                  /\ d.pos = Len(readback) => error = ""
    /\ Len(DataLines) = Len(WrittenPos)
    /\ error = "ValueError" =>
         /\ decisions # <<>>
         /\ decisions[Len(decisions)].count >= Threshold
         /\ NonNumericPrice(readback[Len(readback)])

\* a run that failed at a retained car with a price that is no number,
\* with a buffered car after it that was never read
NonNumericPriceFatalWitness ==
    /\ pc = "failed"
    /\ error = "ValueError"
    /\ decisions[Len(decisions)].count >= Threshold
    /\ NonNumericPrice(readback[Len(readback)])
    /\ Len(readback) < Len(appended)
    /\ DataLines = <<>>

(* C12: the scratch buffer is acquired before ingestion starts and is     *)
(* released in every terminal state.  Before the buffer is acquired       *)
(* nothing has been read; while the run ingests, filters or unwinds from  *)
(* an exception the buffer is open; and once the second loop has read the *)
(* whole buffer (success) or an exception was raised, during ingestion or *)
(* during the filter pass, the buffer is eventually released and the run  *)
(* is in a terminal state, where it stays released.                       *)
Succeeded == pc = "filter" /\ buffer_pos >= Len(car_buffer)

FailedIngesting == pc = "raised" /\ ~FilterPassStarted

FailedFiltering == pc = "raised" /\ FilterPassStarted

BufferReleasedEventually ==
    /\ [](pc = "start" => buffer_state = "none" /\ lineno = 0 /\ appended = <<>>)
    /\ [](pc \in {"ingest", "buffer", "filter", "raised"} => buffer_state = "open")
    /\ [](Terminal => buffer_state = "released")
    /\ Succeeded ~> (pc = "done" /\ buffer_state = "released")
    /\ FailedIngesting ~> (pc = "failed" /\ buffer_state = "released")
    /\ FailedFiltering ~> (pc = "failed" /\ buffer_state = "released")

\* a run that failed during the filter pass, after it had ingested and
\* read back cars, and released the buffer
BufferReleasedWitness ==
    /\ pc = "failed"
    /\ readback # <<>>
    /\ car_buffer # <<>>
    /\ buffer_state = "released"

(* C13: the delay per record does not affect the result.  A run repeated  *)
(* on the same input files in the same discovery order, with a different  *)
(* delay, ends with the same frequency table, the same buffer contents    *)
(* and the same output lines in the same order (and with the same error,  *)
(* if any) as the run before it.                                          *)
DelayDoesNotAffectResult ==
    (run_no = 2 /\ Terminal) =>
        /\ car_model_counts = first_run.counts
        /\ car_buffer = first_run.buffer
        /\ Lines(output_file) = Lines(first_run.output)
        /\ error = first_run.error

\* a repeated run that completed and wrote a car, having slept for another
\* time than the run before it
DelayDoesNotAffectResultWitness ==
    /\ run_no = 2
    /\ pc = "done"
    /\ DataLines # <<>>
    /\ car_model_counts # EmptyDict
    /\ slept # first_run.slept

(* C14, as claimed: the model written to the output is the car_model in   *)
(* title case with words delimited by whitespace only: a letter is        *)
(* uppercased at the start of the string and after whitespace, and        *)
(* lowercased anywhere else, also after a hyphen, a digit or an           *)
(* apostrophe; a symbol that is no letter is kept.                        *)
IsLetter(x) == IsLower(x) \/ IsUpper(x)

WordStart(s, i) == i = 1 \/ s[i - 1] \in Whitespace

LetterRunStart(s, i) == i = 1 \/ ~IsLetter(s[i - 1])

TitledAt(s, i, starts) ==
    IF ~IsLetter(s[i]) THEN s[i]
    ELSE IF starts THEN ToUpper(s[i]) ELSE ToLower(s[i])

\* the model field of the line written for the k-th car read back
WrittenModel(k) ==
    LET rank == Cardinality({j \in 1..k : decisions[j].written})
    IN  Split(DataLines[rank], ",")[1]

TitleCaseByWords ==
    \A k \in 1..Len(decisions) :
        decisions[k].written =>
            LET s == decisions[k].model
            IN  WrittenModel(k) = [i \in 1..Len(s) |-> TitledAt(s, i, WordStart(s, i))]

(* C14, amended: the model written to the output is the car_model with    *)
(* the first letter of every run of letters uppercased and every other    *)
(* letter lowercased: a letter is uppercased at the start of the string   *)
(* and after any symbol that is no letter (whitespace, a hyphen, a digit, *)
(* an apostrophe), and lowercased after a letter.                         *)
TitleCaseByLetterRuns ==
    \A k \in 1..Len(decisions) :
        decisions[k].written =>
            LET s == decisions[k].model
            IN  WrittenModel(k) = [i \in 1..Len(s) |-> TitledAt(s, i, LetterRunStart(s, i))]

\* a completed run that wrote a model with a letter after a hyphen, a
\* digit or an apostrophe
TitleCaseWitness ==
    /\ pc = "done"
    /\ Len(DataLines) = 3
    /\ LET s == decisions[1].model
       IN  \E i \in 2..Len(s) : IsLetter(s[i]) /\ s[i - 1] \in {"-", "9", "'"}

(* C15: each of the three readers increments the count of a record's      *)
(* model exactly once, before it yields the record.  At every moment the  *)
(* count of every model is the number of records of that model appended   *)
(* to the buffer, plus one for a record of that model that was yielded    *)
(* and is about to be appended: whenever a record is appended its model's *)
(* count already includes it, and during ingestion the count of a model   *)
(* is never below the number of its records in the buffer.                *)
InFlight(m) == IF pc = "buffer" /\ ModelOf(car) = m THEN 1 ELSE 0

KnownModels == DictKeys(car_model_counts) \cup {ModelOf(appended[i].car) : i \in 1..Len(appended)}

CountedOnceBeforeYield ==
    /\ \A m \in KnownModels : CountOf(m) = NumAppended(m) + InFlight(m)
    /\ pc = "buffer" => CountCarOk(car) /\ CountOf(ModelOf(car)) >= 1

\* an xml reader has just yielded a record of a model that a csv reader
\* and a json reader yielded before: it is counted, and not yet appended
CountedOnceBeforeYieldWitness ==
    /\ pc = "buffer"
    /\ Chain[gen].fmt = "xml"
    /\ \E i, j \in 1..Len(appended) :
         /\ appended[i].fmt = "csv"
         /\ appended[j].fmt = "json"
         /\ ModelOf(appended[i].car) = ModelOf(car)
         /\ ModelOf(appended[j].car) = ModelOf(car)
    /\ CountOf(ModelOf(car)) = 3
    /\ NumAppended(ModelOf(car)) = 2

(* C16: in the csv reader a line that splits into fewer tokens than the   *)
(* header has fields, under any order of the header's columns, silently   *)
(* gives a partial record of exactly the leading header fields paired     *)
(* with the tokens present: once such a line is read no exception has     *)
(* been raised by the reader or by the count step, and the record yielded *)
(* for the line is that partial record.                                   *)
ReadingCsvData == ~Exhausted /\ Chain[gen].fmt = "csv" /\ lineno >= 2

LeadingFields(head, cells) == [i \in 1..Len(cells) |-> <<head[i], cells[i]>>]

ShortCsvLineTolerated ==
    ReadingCsvData =>
        LET cells == CsvCells(CurFile[lineno])
        IN  Len(cells) < Len(header) =>
                /\ pc # "raised"
                /\ pc = "buffer" => car = LeadingFields(header, cells)

(* C17: the csv reader emits one record for each non-empty line after the *)
(* header and none for a blank or whitespace-only line.  While a csv file *)
(* is read, between two lines, the records appended from it are as many   *)
(* as the non-empty data lines read so far, every one of them comes from  *)
(* a non-empty line, and once a blank line is read the reader has neither *)
(* yielded nor failed: the line is skipped, not counted and not appended. *)
AppendedFrom(fmt, idx) ==
    {i \in 1..Len(appended) : appended[i].fmt = fmt /\ appended[i].idx = idx}

BlankCsvLineSkipped ==
    /\ \A i \in 1..Len(appended) :
         appended[i].fmt = "csv" =>
             NonEmptyLine(csv_files[appended[i].idx][appended[i].line])
    /\ ReadingCsvData =>
         /\ ~NonEmptyLine(CurFile[lineno]) => pc = "ingest"
         /\ pc = "ingest" =>
              Cardinality(AppendedFrom("csv", Chain[gen].idx))
                  = Cardinality({k \in 2..lineno : NonEmptyLine(CurFile[k])})

(* C18: in the xml reader each closing row tag emits the accumulated      *)
(* record and resets the accumulator.  Every record appended from an xml  *)
(* file holds exactly the fields set by the lines between the previous    *)
(* closing row tag of its file (or the start of the file) and its own     *)
(* closing row tag, so no field value of an earlier record shows in a     *)
(* later one; and the buffer holds every record as it was emitted,        *)
(* whatever lines were read after it.                                     *)
ClosesAt(file, k) == XmlCloses(Strip(file[k]))

PreviousClose(file, k) ==
    LET before == {j \in 1..(k - 1) : ClosesAt(file, j)}
    IN  IF before = {} THEN 0 ELSE CHOOSE j \in before : \A i \in before : i <= j

OwnBlock(file, k) == XmlBlocks(SubSeq(file, PreviousClose(file, k) + 1, k), EmptyDict)[1]

XmlRecordIsItsBlock ==
    /\ \A i \in 1..Len(appended) :
         appended[i].fmt = "xml" =>
             /\ ClosesAt(xml_files[appended[i].idx], appended[i].line)
             /\ appended[i].car = OwnBlock(xml_files[appended[i].idx], appended[i].line)
    /\ Lines(car_buffer) = [i \in 1..Len(appended) |-> JsonDumps(appended[i].car) \o <<NL>>]

\* two records were emitted one after the other from one xml file, the
\* second without the price that the first holds, and the run completed
XmlRecordIsItsBlockWitness ==
    \E i \in 1..(Len(appended) - 1) :
        /\ appended[i].fmt = "xml"
        /\ appended[i + 1].fmt = "xml"
        /\ appended[i].idx = appended[i + 1].idx
        /\ DictHas(appended[i].car, PRICE)
        /\ ~DictHas(appended[i + 1].car, PRICE)
        /\ pc = "done"

(* C19: every record in the buffer has a car_model key whose count in the *)
(* frequency table is at least 1, so the filter's lookup finds an entry   *)
(* for every buffered record: every record appended, and every record     *)
(* read back, has a car_model that the table holds with a count of 1 or   *)
(* more, and for every record read back the lookup has given a count, a   *)
(* decision being on record for it.                                       *)
HasCountedModel(c) == DictHas(c, CAR_MODEL) /\ DictHas(car_model_counts, ModelOf(c))
                          /\ DictAt(car_model_counts, ModelOf(c)) >= 1

BufferedCarsAreCounted ==
    /\ \A i \in 1..Len(appended) : HasCountedModel(appended[i].car)
    /\ \A i \in 1..Len(readback) : HasCountedModel(readback[i])
    /\ Len(decisions) = Len(readback)
    /\ \A k \in 1..Len(decisions) :
         /\ decisions[k].pos = k
         /\ decisions[k].model = ModelOf(readback[k])
         /\ decisions[k].count >= 1

\* a completed run that looked up the count of every buffered record, one
\* of a model counted once and one of a model counted three times
BufferedCarsAreCountedWitness ==
    /\ pc = "done"
    /\ Len(readback) = Len(appended)
    /\ \E j, k \in 1..Len(decisions) : decisions[j].count = 1 /\ decisions[k].count = 3

(* C20: in the xml reader the fields accumulated after the last closing   *)
(* row tag of a file, an unclosed block at the end of the file, are never *)
(* emitted.  The records appended from an xml file that was read to its   *)
(* end are the closed blocks of that file and nothing else; the records   *)
(* appended from the file being read are the closed blocks of the lines   *)
(* read so far, taken from the start of that file with nothing carried    *)
(* over from the file before; a record that lacks car_model at its        *)
(* closing row tag fails the count step whatever an earlier file left     *)
(* open; and no model is counted that is not the model of a record        *)
(* emitted.                                                               *)
AppendedCarsFrom(fmt, idx) ==
    LET from == SelectSeq(appended, LAMBDA a : a.fmt = fmt /\ a.idx = idx)
    IN  [i \in 1..Len(from) |-> from[i].car]

ReadingXml == ~Exhausted /\ Chain[gen].fmt = "xml"

XmlFilesRead ==
    IF Exhausted THEN 1..Len(xml_files)
    ELSE IF ReadingXml THEN 1..(Chain[gen].idx - 1)
    ELSE {}

UnclosedBlockDiscarded ==
    /\ \A f \in XmlFilesRead :
         AppendedCarsFrom("xml", f) = XmlBlocks(xml_files[f], EmptyDict)
    /\ (ReadingXml /\ pc = "ingest") =>
         AppendedCarsFrom("xml", Chain[gen].idx)
             = XmlBlocks(SubSeq(CurFile, 1, lineno), EmptyDict)
    /\ (ReadingXml /\ pc = "raised" /\ error = "KeyError") =>
         /\ ClosesAt(CurFile, lineno)
         /\ ~DictHas(OwnBlock(CurFile, lineno), CAR_MODEL)
    /\ \A m \in DictKeys(car_model_counts) : NumAppended(m) + InFlight(m) >= 1

\* the block left open at the end of a file
OpenBlock(file) ==
    LET last == PreviousClose(file, Len(file) + 1)
        tail == SubSeq(file, last + 1, Len(file)) \o <<XmlRowClose>>
    IN  XmlBlocks(tail, EmptyDict)[1]

\* the first xml file ended in an open block that sets car_model; the
\* first block closed in the second file sets no car_model, and the count
\* step failed on it: the model of the open block was neither counted nor
\* carried over
UnclosedBlockDiscardedWitness ==
    /\ Len(xml_files) >= 2
    /\ DictHas(OpenBlock(xml_files[1]), CAR_MODEL)
    /\ ReadingXml
    /\ Chain[gen].idx = 2
    /\ pc = "raised"
    /\ error = "KeyError"
    /\ AppendedCarsFrom("xml", 2) = <<>>
    /\ ~DictHas(car_model_counts, ModelOf(OpenBlock(xml_files[1])))

============================================================================
